---- MODULE Spec2Model ----
(***************************************************************************)
(* Model of the proctoring dashboard: the focus tracker of                 *)
(* hooks/useFocusDetection.js and the session controller, event debouncer  *)
(* and violation effects of components/Dashboard/Dashboard.jsx.            *)
(*                                                                         *)
(* Times are milliseconds as returned by Date.now().  Gaze offsets and eye *)
(* aspect ratios are in thousandths of the normalised landmark unit.       *)
(* Identifiers (session ids, interval ids) are positive integers; 0 stands *)
(* for JavaScript's null.                                                  *)
(***************************************************************************)
EXTENDS Integers, Sequences, FiniteSets, TLC

VARIABLES
    now,               \* Date.now()
    focusData,         \* useFocusDetection: useState focusData
    lastFocusTime,     \* useFocusDetection: lastFocusTime.current
    lastFaceTime,      \* useFocusDetection: lastFaceTime.current
    pendingFace,       \* faceMesh.send calls awaiting their result
    objectData,        \* useObjectDetection: objectData.detectedObjects
    pendingObject,     \* object detections awaiting their result
    isSessionActive,   \* Dashboard useState
    candidateName,     \* Dashboard useState
    sessionId,         \* Dashboard useState
    sessionStartTime,  \* Dashboard useState
    events,            \* Dashboard useState
    sessionTimer,      \* Dashboard useState
    intervalRef,       \* Dashboard useRef
    timerIntervalRef,  \* Dashboard useRef
    lastEventTimeRef,  \* Dashboard useRef
    liveIntervals,     \* the host's timer table: intervals set and not cleared
    cameraOn,          \* useCamera: capture stream held
    recording,         \* useCamera: recorder running
    starts,            \* startSession invocations and the await each is at
    stops,             \* endSession invocations and the await each is at
    created,           \* persistence: sessions createSession has opened
    endCalls,          \* persistence: apiService.endSession calls made
    logged,            \* persistence: apiService.logEvent calls made
    reports,           \* onSessionComplete calls made
    raised             \* history: event types raised as candidates this session

vars == <<now, focusData, lastFocusTime, lastFaceTime, pendingFace, objectData,
          pendingObject, isSessionActive, candidateName, sessionId,
          sessionStartTime, events, sessionTimer, intervalRef, timerIntervalRef,
          lastEventTimeRef, liveIntervals, cameraOn, recording, starts, stops,
          created, endCalls, logged, reports, raised>>

(***************************************************************************)
(* Bounds of the model.                                                    *)
(***************************************************************************)
Epoch == 100000         \* Date.now() when the component mounts
ClockStep == 3000       \* granularity of the clock
EventClockStep == 1500  \* granularity of the clock in the events specification
MaxClockSteps == 1      \* clock steps in the session specification
MaxEventClockSteps == 2 \* clock steps in the events specification
MaxFocusClockSteps == 4 \* clock steps in the focus specification
ScenarioClockStep == 1000     \* granularity of the clock in the scenario specification
MaxScenarioClockSteps == 12   \* clock steps in the scenario specification
MaxStarts == 2          \* start requests in one run
MaxStops == 2           \* stop requests in one run
MaxInflight == 2        \* perception requests awaiting a result at once
MaxTimer == 1           \* cap of the displayed elapsed-seconds counter
MaxNameLen == 1         \* length of the typed candidate name

(***************************************************************************)
(* Program constants.                                                      *)
(***************************************************************************)
gazeThreshold == 50         \* 0.05
earThreshold == 200         \* 0.2
debounceMs == 3000
focusLostThreshold == 5000
noFaceThreshold == 10000

EventTypes == {"FOCUS_LOST", "NO_FACE", "MULTIPLE_FACES", "EYE_CLOSURE",
               "SUSPICIOUS_OBJECT"}

Chars == {" ", "a"}

Max(a, b) == IF a >= b THEN a ELSE b

Abs(x) == IF x < 0 THEN -x ELSE x

SeqsUpTo(S, n) == UNION {[1..k -> S] : k \in 0..n}

(***************************************************************************)
(* String.prototype.trim on a name given as a sequence of characters.      *)
(***************************************************************************)
RECURSIVE trimStart(_)
trimStart(s) ==
    IF s # <<>> /\ Head(s) = " " THEN trimStart(Tail(s)) ELSE s

RECURSIVE trimEnd(_)
trimEnd(s) ==
    IF s # <<>> /\ s[Len(s)] = " " THEN trimEnd(SubSeq(s, 1, Len(s) - 1)) ELSE s

trim(s) == trimEnd(trimStart(s))

(***************************************************************************)
(* useFocusDetection                                                       *)
(***************************************************************************)
InitFocusData ==
    [faceDetected |-> FALSE, lookingAtScreen |-> FALSE, focusScore |-> 0,
     focusLostDuration |-> 0, noFaceDuration |-> 0, multipleFaces |-> FALSE,
     eyeClosure |-> FALSE]

\* calculateGaze on the face vector (vx, vy) and the two eye aspect ratios
calculateGaze(vx, vy, leftEAR, rightEAR) ==
    [lookingAtScreen |-> Abs(vx) < gazeThreshold /\ Abs(vy) < gazeThreshold,
     eyeClosure |-> leftEAR + rightEAR < 2 * earThreshold]

\* calculateFocusScore without the floor at 0
calculateFocusScoreNoFloor(data) ==
    LET s1 == IF ~data.faceDetected THEN 100 - 50 ELSE 100
        s2 == IF ~data.lookingAtScreen THEN s1 - 20 ELSE s1
        s3 == IF data.multipleFaces THEN s2 - 30 ELSE s2
        s4 == IF data.eyeClosure THEN s3 - 15 ELSE s3
        s5 == IF data.focusLostDuration > focusLostThreshold THEN s4 - 20 ELSE s4
    IN  IF data.noFaceDuration > noFaceThreshold THEN s5 - 40 ELSE s5

\* calculateFocusScore with the penalties as an else-if chain: only the first
\* applicable one is subtracted
calculateFocusScoreFirstOnly(data) ==
    IF ~data.faceDetected THEN 50
    ELSE IF ~data.lookingAtScreen THEN 80
    ELSE IF data.multipleFaces THEN 70
    ELSE IF data.eyeClosure THEN 85
    ELSE 100

calculateFocusScore(data) ==
    LET s1 == IF ~data.faceDetected THEN 100 - 50 ELSE 100
        s2 == IF ~data.lookingAtScreen THEN s1 - 20 ELSE s1
        s3 == IF data.multipleFaces THEN s2 - 30 ELSE s2
        s4 == IF data.eyeClosure THEN s3 - 15 ELSE s3
        s5 == IF data.focusLostDuration > focusLostThreshold THEN s4 - 20 ELSE s4
        s6 == IF data.noFaceDuration > noFaceThreshold THEN s5 - 40 ELSE s5
    IN  Max(0, s6)

\* onFaceResults closing over the focusData of the latest render
closureFocusDataCurrent == focusData

\* The focusData the registered onFaceResults closes over: the handler is
\* registered once, by the mount effect, so it is the first render's closure.
closureFocusData == InitFocusData

\* onFaceResults measuring focusLostDuration, when no face is seen, from the
\* last time a face was seen
onFaceResultsSinceFaceSeen(numFaces, gaze, currentTime, focusRef, faceRef) ==
    LET base == closureFocusData
        d == IF numFaces > 0
             THEN [base EXCEPT
                     !.faceDetected = TRUE,
                     !.multipleFaces = numFaces > 1,
                     !.noFaceDuration = 0,
                     !.lookingAtScreen = gaze.lookingAtScreen,
                     !.eyeClosure = gaze.eyeClosure,
                     !.focusLostDuration =
                         IF gaze.lookingAtScreen THEN 0
                         ELSE currentTime - focusRef]
             ELSE [base EXCEPT
                     !.faceDetected = FALSE,
                     !.lookingAtScreen = FALSE,
                     !.noFaceDuration = currentTime - faceRef,
                     !.focusLostDuration = currentTime - faceRef]
    IN  [data |-> [d EXCEPT !.focusScore = calculateFocusScore(d)],
         lastFaceTime |-> IF numFaces > 0 THEN currentTime ELSE faceRef,
         lastFocusTime |-> IF numFaces > 0 /\ gaze.lookingAtScreen
                           THEN currentTime ELSE focusRef]

\* onFaceResults leaving focusLostDuration alone when no face is seen
onFaceResultsNoFaceKeepsFocus(numFaces, gaze, currentTime, focusRef, faceRef) ==
    LET base == closureFocusData
        d == IF numFaces > 0
             THEN [base EXCEPT
                     !.faceDetected = TRUE,
                     !.multipleFaces = numFaces > 1,
                     !.noFaceDuration = 0,
                     !.lookingAtScreen = gaze.lookingAtScreen,
                     !.eyeClosure = gaze.eyeClosure,
                     !.focusLostDuration =
                         IF gaze.lookingAtScreen THEN 0
                         ELSE currentTime - focusRef]
             ELSE [base EXCEPT
                     !.faceDetected = FALSE,
                     !.lookingAtScreen = FALSE,
                     !.noFaceDuration = currentTime - faceRef]
    IN  [data |-> [d EXCEPT !.focusScore = calculateFocusScore(d)],
         lastFaceTime |-> IF numFaces > 0 THEN currentTime ELSE faceRef,
         lastFocusTime |-> IF numFaces > 0 /\ gaze.lookingAtScreen
                           THEN currentTime ELSE focusRef]

\* onFaceResults for a result with numFaces faces, at currentTime; the record
\* returned holds the focusData handed to setFocusData and the two refs.
onFaceResults(numFaces, gaze, currentTime, focusRef, faceRef) ==
    LET base == closureFocusData
        d == IF numFaces > 0
             THEN [base EXCEPT
                     !.faceDetected = TRUE,
                     !.multipleFaces = numFaces > 1,
                     !.noFaceDuration = 0,
                     !.lookingAtScreen = gaze.lookingAtScreen,
                     !.eyeClosure = gaze.eyeClosure,
                     !.focusLostDuration =
                         IF gaze.lookingAtScreen THEN 0
                         ELSE currentTime - focusRef]
             ELSE [base EXCEPT
                     !.faceDetected = FALSE,
                     !.lookingAtScreen = FALSE,
                     !.noFaceDuration = currentTime - faceRef,
                     !.focusLostDuration = currentTime - focusRef]
    IN  [data |-> [d EXCEPT !.focusScore = calculateFocusScore(d)],
         lastFaceTime |-> IF numFaces > 0 THEN currentTime ELSE faceRef,
         lastFocusTime |-> IF numFaces > 0 /\ gaze.lookingAtScreen
                           THEN currentTime ELSE focusRef]

(***************************************************************************)
(* Dashboard: the event debouncer and the two violation effects.  The      *)
(* record st holds what addEvent reads and writes: the events state, the   *)
(* lastEventTimeRef map and the logEvent calls made.                       *)
(***************************************************************************)
\* addEvent debouncing on the event type and its payload's class
addEventPerClass(st, type, class, t, sid, startTime) ==
    LET newEvent == [type |-> type, class |-> class, timestamp |-> t,
                     sessionTime |-> t - startTime]
        same == {i \in 1..Len(st.events) :
                    /\ st.events[i].type = type
                    /\ st.events[i].class = class
                    /\ t - st.events[i].timestamp < debounceMs}
    IN  IF t - st.last[type] < debounceMs /\ same # {}
        THEN st
        ELSE [events |-> Append(st.events, newEvent),
              last |-> [st.last EXCEPT ![type] = t],
              logged |-> IF sid # 0 THEN st.logged \cup {<<sid, newEvent>>}
                         ELSE st.logged]

\* addEvent recording the candidate's time before the debounce test fails it
addEventRefreshOnDrop(st, type, class, t, sid, startTime) ==
    LET lastTime == st.last[type]
        newEvent == [type |-> type, class |-> class, timestamp |-> t,
                     sessionTime |-> t - startTime]
    IN  IF t - lastTime < debounceMs
        THEN [st EXCEPT !.last = [st.last EXCEPT ![type] = t]]
        ELSE [events |-> Append(st.events, newEvent),
              last |-> [st.last EXCEPT ![type] = t],
              logged |-> IF sid # 0 THEN st.logged \cup {<<sid, newEvent>>}
                         ELSE st.logged]

addEvent(st, type, class, t, sid, startTime) ==
    LET lastTime == st.last[type]
        newEvent == [type |-> type, class |-> class, timestamp |-> t,
                     sessionTime |-> t - startTime]
    IN  IF t - lastTime < debounceMs
        THEN st
        ELSE [events |-> Append(st.events, newEvent),
              last |-> [st.last EXCEPT ![type] = t],
              logged |-> IF sid # 0 THEN st.logged \cup {<<sid, newEvent>>}
                         ELSE st.logged]

\* the focus effect with the two duration thresholds inclusive
focusEffectInclusive(st, active, data, t, sid, startTime) ==
    IF ~active THEN st
    ELSE LET s1 == IF data.focusLostDuration >= focusLostThreshold
                   THEN addEvent(st, "FOCUS_LOST", "", t, sid, startTime)
                   ELSE st
             s2 == IF data.noFaceDuration >= noFaceThreshold
                   THEN addEvent(s1, "NO_FACE", "", t, sid, startTime)
                   ELSE s1
         IN  IF data.multipleFaces
             THEN addEvent(s2, "MULTIPLE_FACES", "", t, sid, startTime)
             ELSE s2

\* the focus effect without its early return while no session is active
focusEffectUnguarded(st, active, data, t, sid, startTime) ==
    LET s1 == IF data.focusLostDuration > focusLostThreshold
              THEN addEvent(st, "FOCUS_LOST", "", t, sid, startTime)
              ELSE st
        s2 == IF data.noFaceDuration > noFaceThreshold
              THEN addEvent(s1, "NO_FACE", "", t, sid, startTime)
              ELSE s1
    IN  IF data.multipleFaces
        THEN addEvent(s2, "MULTIPLE_FACES", "", t, sid, startTime)
        ELSE s2

\* useEffect(..., [focusData, isSessionActive])
focusEffect(st, active, data, t, sid, startTime) ==
    IF ~active THEN st
    ELSE LET s1 == IF data.focusLostDuration > focusLostThreshold
                   THEN addEvent(st, "FOCUS_LOST", "", t, sid, startTime)
                   ELSE st
             s2 == IF data.noFaceDuration > noFaceThreshold
                   THEN addEvent(s1, "NO_FACE", "", t, sid, startTime)
                   ELSE s1
         IN  IF data.multipleFaces
             THEN addEvent(s2, "MULTIPLE_FACES", "", t, sid, startTime)
             ELSE s2

suspiciousObjects(objs) == SelectSeq(objs, LAMBDA c : c # "person")

RECURSIVE addEach(_, _, _, _, _)
addEach(st, objs, t, sid, startTime) ==
    IF objs = <<>> THEN st
    ELSE addEach(addEvent(st, "SUSPICIOUS_OBJECT", Head(objs), t, sid, startTime),
                 Tail(objs), t, sid, startTime)

\* useEffect(..., [objectData, isSessionActive])
objectEffect(st, active, objs, t, sid, startTime) ==
    IF ~active THEN st
    ELSE addEach(st, suspiciousObjects(objs), t, sid, startTime)

\* The event types the two effects raise as candidates
focusCandidates(data) ==
    {ty \in {"FOCUS_LOST"} : data.focusLostDuration > focusLostThreshold}
    \cup {ty \in {"NO_FACE"} : data.noFaceDuration > noFaceThreshold}
    \cup {ty \in {"MULTIPLE_FACES"} : data.multipleFaces}

objectCandidates(objs) ==
    {ty \in {"SUSPICIOUS_OBJECT"} : suspiciousObjects(objs) # <<>>}

(***************************************************************************)
(* Dashboard: endSession's report.                                         *)
(***************************************************************************)
countType(evs, type) == Len(SelectSeq(evs, LAMBDA e : e.type = type))

\* the class names of the events without the Set that removes duplicates
allClasses(evs, seen) ==
    LET named == SelectSeq(evs, LAMBDA e : e.class # "")
    IN  [k \in 1..Len(named) |-> named[k].class]

RECURSIVE distinctClasses(_, _)
distinctClasses(evs, seen) ==
    IF evs = <<>> THEN <<>>
    ELSE LET c == Head(evs).class
         IN  IF c = "" \/ c \in seen
             THEN distinctClasses(Tail(evs), seen)
             ELSE <<c>> \o distinctClasses(Tail(evs), seen \cup {c})

sessionData(sid, name, startTime, endTime, evs) ==
    [sessionId |-> sid, candidateName |-> name, startTime |-> startTime, endTime |-> endTime,
     events |-> evs,
     focusSummary |->
         [focusLostCount |-> countType(evs, "FOCUS_LOST"),
          noFaceCount |-> countType(evs, "NO_FACE"),
          multipleFacesCount |-> countType(evs, "MULTIPLE_FACES"),
          eyeClosureCount |-> countType(evs, "EYE_CLOSURE")],
     objectSummary |->
         [totalDetections |-> countType(evs, "SUSPICIOUS_OBJECT"),
          items |-> distinctClasses(
                        SelectSeq(evs, LAMBDA e : e.type = "SUSPICIOUS_OBJECT"),
                        {})]]

NoData == sessionData(0, <<>>, 0, 0, <<>>)

NoStart == [pc |-> "idle", candidateName |-> <<>>]

NoStop == [pc |-> "idle", sessionId |-> 0, candidateName |-> <<>>,
           sessionStartTime |-> 0,
           events |-> <<>>, data |-> NoData]

(***************************************************************************)
(* Identifiers.  The p-th start request opens session p and sets the       *)
(* intervals 2p-1 (sampling) and 2p (duration).                            *)
(***************************************************************************)
StartIds == 1..MaxStarts

StopIds == 1..MaxStops

samplingId(p) == 2 * p - 1

durationId(p) == 2 * p

IntervalIds == 1..(2 * MaxStarts)

isSampling(i) == i % 2 = 1

ownerOf(i) == (i + 1) \div 2

Names == SeqsUpTo(Chars, MaxNameLen)

\* Perception results the environment delivers.  A face result is the number
\* of faces and, for the first face, the face vector and the two eye aspect
\* ratios; an object result is the sequence of detected classes.
FaceResult(numFaces, vx, vy, leftEAR, rightEAR) ==
    [numFaces |-> numFaces, vx |-> vx, vy |-> vy, leftEAR |-> leftEAR,
     rightEAR |-> rightEAR]

NoFace == FaceResult(0, 0, 0, 0, 0)

AllFaceResults ==
    {NoFace} \cup
    {FaceResult(n, vx, vy, l, r) :
        n \in 1..2, vx \in {-50, 0}, vy \in {0, 49}, l \in {150, 200},
        r \in {200}}

NominalFace == FaceResult(1, 0, 0, 200, 200)

TwoFaces == FaceResult(2, 0, 0, 200, 200)

SomeFaceResults == {NoFace, NominalFace, TwoFaces}

SomeObjectResults == {<<"person">>, <<"book", "phone">>}

(***************************************************************************)
(* Initial state: the component as mounted, no session started.            *)
(***************************************************************************)
Init ==
    /\ now = Epoch
    /\ focusData = InitFocusData
    /\ lastFocusTime = Epoch
    /\ lastFaceTime = Epoch
    /\ pendingFace = 0
    /\ objectData = <<>>
    /\ pendingObject = 0
    /\ isSessionActive = FALSE
    /\ candidateName = <<>>
    /\ sessionId = 0
    /\ sessionStartTime = 0
    /\ events = <<>>
    /\ sessionTimer = 0
    /\ intervalRef = 0
    /\ timerIntervalRef = 0
    /\ lastEventTimeRef = [ty \in EventTypes |-> 0]
    /\ liveIntervals = {}
    /\ cameraOn = FALSE
    /\ recording = FALSE
    /\ starts = [p \in StartIds |-> NoStart]
    /\ stops = [q \in StopIds |-> NoStop]
    /\ created = {}
    /\ endCalls = <<>>
    /\ logged = {}
    /\ reports = <<>>
    /\ raised = {}

focusVars == <<focusData, lastFocusTime, lastFaceTime>>

cameraVars == <<cameraOn, recording>>

sessionVars == <<isSessionActive, sessionId, sessionStartTime, sessionTimer>>

intervalVars == <<intervalRef, timerIntervalRef, liveIntervals>>

eventVars == <<events, lastEventTimeRef, logged, raised>>

persistVars == <<created, endCalls, reports>>

pendingVars == <<pendingFace, pendingObject>>

(***************************************************************************)
(* The candidate-name input, rendered while no session is active.          *)
(***************************************************************************)
SetCandidateName(n) ==
    /\ ~isSessionActive
    /\ n # candidateName
    /\ candidateName' = n
    /\ UNCHANGED <<now, focusVars, pendingVars, objectData, sessionVars, events,
                   intervalVars, lastEventTimeRef, cameraVars, starts, stops,
                   persistVars, logged, raised>>

(***************************************************************************)
(* startSession.  The Start button is rendered while no session is active. *)
(***************************************************************************)
startButtonShown == ~isSessionActive

\* the validation without the trim
nameMissingUntrimmed(name) == name = <<>>

nameMissing(name) == trim(name) = <<>>

freeStart(p) ==
    starts[p].pc = "idle" /\ \A r \in StartIds : r < p => starts[r].pc # "idle"

\* the click: validation, then the call of startCamera; the invocation keeps
\* the candidateName of the render it was created in
StartRequest(p) ==
    /\ startButtonShown
    /\ freeStart(p)
    /\ starts' = [starts EXCEPT
                    ![p] = [pc |-> IF nameMissing(candidateName) THEN "rejected"
                                   ELSE "camera",
                            candidateName |-> candidateName]]
    /\ UNCHANGED <<now, focusVars, pendingVars, objectData, sessionVars,
                   candidateName, events, intervalVars, lastEventTimeRef,
                   cameraVars, stops, persistVars, logged, raised>>

\* useCamera: what its four operations do to the capture stream and the
\* recorder once they have resolved
startCamera == cameraOn' = TRUE

startRecording == recording' = TRUE

stopRecording == recording' = FALSE

stopCamera == cameraOn' = FALSE

\* what the catch block of startSession does once an await has rejected
startFailed(p) ==
    /\ starts' = [starts EXCEPT ![p].pc = "failed"]
    /\ UNCHANGED cameraVars

\* await startCamera() settles; on success startRecording() is called
StartCameraDone(p, ok) ==
    /\ starts[p].pc = "camera"
    /\ IF ok
       THEN /\ startCamera
            /\ UNCHANGED recording
            /\ starts' = [starts EXCEPT ![p].pc = "recording"]
       ELSE startFailed(p)
    /\ UNCHANGED <<now, focusVars, pendingVars, objectData, sessionVars,
                   candidateName, events, intervalVars, lastEventTimeRef, stops,
                   persistVars, logged, raised>>

\* await startRecording() settles; on success createSession is called
StartRecordingDone(p, ok) ==
    /\ starts[p].pc = "recording"
    /\ IF ok
       THEN /\ startRecording
            /\ UNCHANGED cameraOn
            /\ starts' = [starts EXCEPT ![p].pc = "create"]
       ELSE startFailed(p)
    /\ UNCHANGED <<now, focusVars, pendingVars, objectData, sessionVars,
                   candidateName, events, intervalVars, lastEventTimeRef, stops,
                   persistVars, logged, raised>>

\* await apiService.createSession settles; on success the session state is
\* set, both intervals are started, and the render that follows runs the two
\* effects when isSessionActive has changed.
CreateSessionDone(p, ok) ==
    /\ starts[p].pc = "create"
    /\ IF ok
       THEN LET st0 == [events |-> <<>>, last |-> lastEventTimeRef,
                        logged |-> logged]
                rerun == ~isSessionActive
                st1 == focusEffect(st0, rerun, focusData, now, p, now)
                st2 == objectEffect(st1, rerun, objectData, now, p, now)
            IN  /\ created' = created \cup
                                   {[id |-> p,
                                     candidateName |-> trim(starts[p].candidateName)]}
                /\ sessionId' = p
                /\ sessionStartTime' = now
                /\ isSessionActive' = TRUE
                /\ sessionTimer' = 0
                /\ intervalRef' = samplingId(p)
                /\ timerIntervalRef' = durationId(p)
                /\ liveIntervals' =
                       liveIntervals \cup {samplingId(p), durationId(p)}
                /\ events' = st2.events
                /\ lastEventTimeRef' = st2.last
                /\ logged' = st2.logged
                /\ raised' = IF rerun
                             THEN focusCandidates(focusData)
                                  \cup objectCandidates(objectData)
                             ELSE {}
                /\ starts' = [starts EXCEPT ![p].pc = "done"]
                /\ UNCHANGED <<cameraVars, endCalls, reports>>
       ELSE /\ startFailed(p)
            /\ UNCHANGED <<sessionVars, events, intervalVars, lastEventTimeRef,
                           persistVars, logged, raised>>
    /\ UNCHANGED <<now, focusVars, pendingVars, objectData, candidateName, stops>>

(***************************************************************************)
(* endSession.  The End button is rendered while a session is active.      *)
(***************************************************************************)
\* the End button rendered whether or not a session is active
endButtonAlways == TRUE

endButtonShown == isSessionActive

freeStop(q) ==
    stops[q].pc = "idle" /\ \A r \in StopIds : r < q => stops[r].pc # "idle"

\* endSession clearing the sampling interval alone
clearSamplingOnly(live) == live \ {intervalRef}

\* clearInterval of the two refs
clearIntervals(live) == live \ {intervalRef, timerIntervalRef}

\* the click: both intervals are cleared and stopRecording() is called; the
\* invocation keeps the state of the render it was created in
EndRequest(q) ==
    /\ endButtonShown
    /\ freeStop(q)
    /\ liveIntervals' = clearIntervals(liveIntervals)
    /\ stops' = [stops EXCEPT
                   ![q] = [pc |-> "stopRecording", sessionId |-> sessionId,
                           candidateName |-> candidateName,
                           sessionStartTime |-> sessionStartTime,
                           events |-> events, data |-> NoData]]
    /\ UNCHANGED <<now, focusVars, pendingVars, objectData, sessionVars,
                   candidateName, events, intervalRef, timerIntervalRef,
                   lastEventTimeRef, cameraVars, starts, persistVars, logged,
                   raised>>

\* await stopRecording() settles; on success the camera is stopped, the
\* report is built and apiService.endSession is called
StopRecordingDone(q, ok) ==
    /\ stops[q].pc = "stopRecording"
    /\ IF ok
       THEN /\ stopRecording
            /\ stopCamera
            /\ IF stops[q].sessionStartTime = 0
               THEN \* sessionStartTime.getTime() throws on null
                    /\ stops' = [stops EXCEPT ![q].pc = "failed"]
                    /\ UNCHANGED endCalls
               ELSE /\ stops' = [stops EXCEPT
                                   ![q].pc = "endSession",
                                   ![q].data =
                                       sessionData(stops[q].sessionId,
                                                   stops[q].candidateName,
                                                   stops[q].sessionStartTime,
                                                   now, stops[q].events)]
                    /\ endCalls' = Append(endCalls, stops[q].sessionId)
       ELSE /\ stops' = [stops EXCEPT ![q].pc = "failed"]
            /\ UNCHANGED <<cameraVars, endCalls>>
    /\ UNCHANGED <<now, focusVars, pendingVars, objectData, sessionVars,
                   candidateName, events, intervalVars, lastEventTimeRef, starts,
                   created, reports, logged, raised>>

\* await apiService.endSession settles; on success the report is handed to
\* onSessionComplete and the session state is reset
EndSessionDone(q, ok) ==
    /\ stops[q].pc = "endSession"
    /\ IF ok
       THEN /\ reports' = Append(reports, stops[q].data)
            /\ isSessionActive' = FALSE
            /\ sessionId' = 0
            /\ candidateName' = <<>>
            /\ sessionTimer' = 0
            /\ stops' = [stops EXCEPT ![q].pc = "done"]
            /\ UNCHANGED sessionStartTime
       ELSE /\ stops' = [stops EXCEPT ![q].pc = "failed"]
            /\ UNCHANGED <<sessionVars, candidateName, reports>>
    /\ UNCHANGED <<now, focusVars, pendingVars, objectData, events, intervalVars,
                   lastEventTimeRef, cameraVars, starts, created, endCalls,
                   logged, raised>>

(***************************************************************************)
(* The two intervals.                                                      *)
(***************************************************************************)
\* video.readyState === 4: the capture stream is delivering frames
videoReady == cameraOn

\* the sampling interval's callback: processFocusDetection and
\* processObjectDetection each send the current frame
SamplingTick(i) ==
    /\ i \in liveIntervals
    /\ isSampling(i)
    /\ videoReady
    /\ pendingFace < MaxInflight
    /\ pendingObject < MaxInflight
    /\ pendingFace' = pendingFace + 1
    /\ pendingObject' = pendingObject + 1
    /\ UNCHANGED <<now, focusVars, objectData, sessionVars, candidateName,
                   events, intervalVars, lastEventTimeRef, cameraVars, starts,
                   stops, persistVars, logged, raised>>

\* the duration interval's callback
DurationTick(i) ==
    /\ i \in liveIntervals
    /\ ~isSampling(i)
    /\ sessionTimer < MaxTimer
    /\ sessionTimer' = sessionTimer + 1
    /\ UNCHANGED <<now, focusVars, pendingVars, objectData, isSessionActive,
                   sessionId, sessionStartTime, candidateName, events,
                   intervalVars, lastEventTimeRef, cameraVars, starts, stops,
                   persistVars, logged, raised>>

(***************************************************************************)
(* Perception results.                                                     *)
(***************************************************************************)
\* faceMesh delivers a result: onFaceResults, then the render runs the focus
\* effect on the new focusData
FaceResults(res) ==
    /\ pendingFace > 0
    /\ pendingFace' = pendingFace - 1
    /\ LET r == onFaceResults(res.numFaces,
                              calculateGaze(res.vx, res.vy, res.leftEAR,
                                            res.rightEAR),
                              now, lastFocusTime, lastFaceTime)
           st0 == [events |-> events, last |-> lastEventTimeRef,
                   logged |-> logged]
           st1 == focusEffect(st0, isSessionActive, r.data, now, sessionId,
                              sessionStartTime)
       IN  /\ focusData' = r.data
           /\ lastFocusTime' = r.lastFocusTime
           /\ lastFaceTime' = r.lastFaceTime
           /\ events' = st1.events
           /\ lastEventTimeRef' = st1.last
           /\ logged' = st1.logged
           /\ raised' = IF isSessionActive
                        THEN raised \cup focusCandidates(r.data)
                        ELSE raised
    /\ UNCHANGED <<now, pendingObject, objectData, sessionVars, candidateName,
                   intervalVars, cameraVars, starts, stops, persistVars>>

\* the object detector delivers a result: setObjectData, then the render runs
\* the object effect on the new objectData
ObjectDetections(objs) ==
    /\ pendingObject > 0
    /\ pendingObject' = pendingObject - 1
    /\ objectData' = objs
    /\ LET st0 == [events |-> events, last |-> lastEventTimeRef,
                   logged |-> logged]
           st1 == objectEffect(st0, isSessionActive, objs, now, sessionId,
                               sessionStartTime)
       IN  /\ events' = st1.events
           /\ lastEventTimeRef' = st1.last
           /\ logged' = st1.logged
           /\ raised' = IF isSessionActive
                        THEN raised \cup objectCandidates(objs)
                        ELSE raised
    /\ UNCHANGED <<now, focusVars, pendingFace, sessionVars, candidateName,
                   intervalVars, cameraVars, starts, stops, persistVars>>

(***************************************************************************)
(* The clock.                                                              *)
(***************************************************************************)
AdvanceClock(step, steps) ==
    /\ now + step <= Epoch + steps * step
    /\ now' = now + step
    /\ UNCHANGED <<focusVars, pendingVars, objectData, sessionVars,
                   candidateName, events, intervalVars, lastEventTimeRef,
                   cameraVars, starts, stops, persistVars, logged, raised>>

(***************************************************************************)
(* Spec: the session controller under every outcome of its awaits and      *)
(* every interleaving of start and stop requests, with one nominal         *)
(* perception result per request.                                          *)
(***************************************************************************)
Next ==
    \/ \E n \in Names : SetCandidateName(n)
    \/ \E p \in StartIds : StartRequest(p)
    \/ \E p \in StartIds, ok \in BOOLEAN : StartCameraDone(p, ok)
    \/ \E p \in StartIds, ok \in BOOLEAN : StartRecordingDone(p, ok)
    \/ \E p \in StartIds, ok \in BOOLEAN : CreateSessionDone(p, ok)
    \/ \E q \in StopIds : EndRequest(q)
    \/ \E q \in StopIds, ok \in BOOLEAN : StopRecordingDone(q, ok)
    \/ \E q \in StopIds, ok \in BOOLEAN : EndSessionDone(q, ok)
    \/ \E i \in IntervalIds : SamplingTick(i)
    \/ \E i \in IntervalIds : DurationTick(i)
    \/ FaceResults(NominalFace)
    \/ ObjectDetections(<<>>)
    \/ AdvanceClock(ClockStep, MaxClockSteps)

Spec == Init /\ [][Next]_vars

(***************************************************************************)
(* SpecEvents: sessions run one after the other, their awaits all          *)
(* succeeding, under varied perception results and a clock that stops      *)
(* inside the debounce window and at its end; for the debouncer and the    *)
(* violation effects.                                                      *)
(***************************************************************************)
NextEvents ==
    \/ SetCandidateName(<<"a">>)
    \/ StartRequest(1)
    \/ (reports # <<>> /\ StartRequest(2))
    \/ \E p \in StartIds : StartCameraDone(p, TRUE)
    \/ \E p \in StartIds : StartRecordingDone(p, TRUE)
    \/ \E p \in StartIds : CreateSessionDone(p, TRUE)
    \/ EndRequest(1)
    \/ StopRecordingDone(1, TRUE)
    \/ EndSessionDone(1, TRUE)
    \/ \E i \in IntervalIds : SamplingTick(i)
    \/ \E res \in SomeFaceResults : FaceResults(res)
    \/ \E objs \in SomeObjectResults : ObjectDetections(objs)
    \/ AdvanceClock(EventClockStep, MaxEventClockSteps)

SpecEvents == Init /\ [][NextEvents]_vars

(***************************************************************************)
(* SpecFocus: one session, under every face result and a clock that runs   *)
(* past both duration thresholds, for the focus tracker.                   *)
(***************************************************************************)
NextFocus ==
    \/ SetCandidateName(<<"a">>)
    \/ StartRequest(1)
    \/ StartCameraDone(1, TRUE)
    \/ StartRecordingDone(1, TRUE)
    \/ CreateSessionDone(1, TRUE)
    \/ SamplingTick(samplingId(1))
    \/ \E res \in AllFaceResults : FaceResults(res)
    \/ ObjectDetections(<<>>)
    \/ AdvanceClock(ClockStep, MaxFocusClockSteps)

SpecFocus == Init /\ [][NextFocus]_vars

(***************************************************************************)
(* SpecScenario: one session sampled on a clock of one-second steps that   *)
(* runs past the no-face threshold, the face either absent or nominal.     *)
(***************************************************************************)
NextScenario ==
    \/ SetCandidateName(<<"a">>)
    \/ StartRequest(1)
    \/ StartCameraDone(1, TRUE)
    \/ StartRecordingDone(1, TRUE)
    \/ CreateSessionDone(1, TRUE)
    \/ SamplingTick(samplingId(1))
    \/ \E res \in {NoFace, NominalFace} : FaceResults(res)
    \/ ObjectDetections(<<>>)
    \/ AdvanceClock(ScenarioClockStep, MaxScenarioClockSteps)

SpecScenario == Init /\ [][NextScenario]_vars

(***************************************************************************)
(* Properties.                                                             *)
(***************************************************************************)
\* a face result was handled in this step
FaceStep == pendingFace' = pendingFace - 1

\* an object result was handled in this step
ObjectStep == pendingObject' = pendingObject - 1

\* the sum of the penalties that apply to a focus record
Penalty(d) ==
    (IF ~d.faceDetected THEN 50 ELSE 0)
    + (IF ~d.lookingAtScreen THEN 20 ELSE 0)
    + (IF d.multipleFaces THEN 30 ELSE 0)
    + (IF d.eyeClosure THEN 15 ELSE 0)
    + (IF d.focusLostDuration > 5000 THEN 20 ELSE 0)
    + (IF d.noFaceDuration > 10000 THEN 40 ELSE 0)

\* C1: in every reachable state focusScore is an integer between 0 and 100.
C1_FocusScoreInRange == focusData.focusScore \in 0..100

\* C1 witness: a no-face spell past both thresholds, whose penalties add up
\* to more than 100, has been scored.
C1_Witness ==
    /\ ~focusData.faceDetected
    /\ focusData.noFaceDuration > 10000
    /\ focusData.focusLostDuration > 5000
    /\ focusData.focusScore = 0

\* C2: the score stored by a tick is max(0, 100 - P), P the sum of the
\* penalties that apply to the signals and durations stored by that tick; one
\* nominal face scores 100 and two otherwise nominal faces score 70.
C2_ScoreIsHundredMinusPenalties ==
    [][FaceStep =>
          LET d == focusData'
              nominal == /\ d.faceDetected /\ d.lookingAtScreen /\ ~d.eyeClosure
                         /\ d.focusLostDuration <= 5000
                         /\ d.noFaceDuration <= 10000
          IN  /\ d.focusScore = Max(0, 100 - Penalty(d))
              /\ nominal /\ ~d.multipleFaces => d.focusScore = 100
              /\ nominal /\ d.multipleFaces => d.focusScore = 70]_vars

\* C2 witness: a tick with two otherwise nominal faces has stored 70.
C2_Witness ==
    /\ focusData.faceDetected /\ focusData.multipleFaces
    /\ focusData.lookingAtScreen /\ ~focusData.eyeClosure
    /\ focusData.focusScore = 70

\* a start request's session was opened in this step: events is reset
OpenStep == created' # created

\* the controller became active in this step: both effects run
ActivationStep == ~isSessionActive /\ isSessionActive'

\* the event types raised as candidates in this step
StepCandidates ==
    IF ActivationStep
    THEN focusCandidates(focusData) \cup objectCandidates(objectData)
    ELSE IF FaceStep /\ isSessionActive THEN focusCandidates(focusData')
    ELSE IF ObjectStep /\ isSessionActive THEN objectCandidates(objectData')
    ELSE {}

\* the events a step appends, and whether it only appends
StepBase == IF OpenStep THEN <<>> ELSE events

StepAppends ==
    /\ Len(events') >= Len(StepBase)
    /\ SubSeq(events', 1, Len(StepBase)) = StepBase

StepNew == SubSeq(events', Len(StepBase) + 1, Len(events'))

\* C3: any two events of one type in the session's log were accepted at least
\* 3000 ms apart, whatever their payloads.
C3_SameTypeEventsSpaced ==
    \A i, j \in 1..Len(events) :
        (i < j /\ events[i].type = events[j].type)
            => events[j].timestamp - events[i].timestamp >= 3000

\* C3 witness: the log holds two events of one type.
C3_Witness ==
    /\ isSessionActive
    /\ \E i, j \in 1..Len(events) :
          i < j /\ events[i].type = events[j].type

\* C4: a candidate of type T raised less than 3000 ms after the last accepted
\* event of type T leaves the log without a new T event and leaves T's entry
\* of the debounce map as it was; otherwise exactly one T event, stamped now,
\* is appended and T's entry becomes now; the entries of the types no
\* candidate was raised for do not change, and the log is only appended to.
C4_DebounceFrame ==
    [][/\ StepAppends
       /\ \A T \in EventTypes :
             LET newT == SelectSeq(StepNew, LAMBDA e : e.type = T)
             IN  IF T \in StepCandidates /\ now - lastEventTimeRef[T] >= 3000
                 THEN /\ Len(newT) = 1
                      /\ newT[1].timestamp = now
                      /\ lastEventTimeRef'[T] = now
                 ELSE /\ newT = <<>>
                      /\ lastEventTimeRef'[T] = lastEventTimeRef[T]]_vars

\* C4 witness: in an active session a MULTIPLE_FACES event was accepted, and
\* the two-face result handled 1500 ms later (the latest result: it set
\* lastFaceTime to now) raised a candidate that was dropped.
C4_Witness ==
    /\ isSessionActive
    /\ focusData.multipleFaces
    /\ lastFaceTime = now
    /\ lastEventTimeRef["MULTIPLE_FACES"] = now - 1500
    /\ \E i \in 1..Len(events) :
          /\ events[i].type = "MULTIPLE_FACES"
          /\ events[i].timestamp = now - 1500

\* C5: the first candidate of a type raised in a session is accepted, however
\* recently an event of that type was accepted in an earlier session.
C5_FirstCandidateOfSessionAccepted ==
    [][\A T \in StepCandidates :
          T \notin (IF ActivationStep THEN {} ELSE raised)
              => /\ lastEventTimeRef'[T] = now
                 /\ \E i \in 1..Len(events') :
                       events'[i].type = T /\ events'[i].timestamp = now]_vars

\* a name that is empty once surrounding whitespace is removed
IsBlank(name) == \A k \in 1..Len(name) : name[k] = " "

\* start requests between their click and their last await
InFlightStarts ==
    {p \in StartIds : starts[p].pc \in {"camera", "recording", "create"}}

\* stop requests between their click and their last await
InFlightStops == {q \in StopIds : stops[q].pc \in {"stopRecording", "endSession"}}

\* the sessions a stop request has been issued for
StopRequested == {stops[q].sessionId : q \in {r \in StopIds : stops[r].pc # "idle"}}

\* C6: a start request whose name is empty after trimming is rejected and
\* changes nothing: the controller stays idle, no resource is acquired, no
\* session is opened, the log is untouched, no interval is started, and the
\* rejected request does nothing later either.
C6_BlankNameRejected ==
    [][\A p \in StartIds :
          /\ (starts[p].pc = "idle" /\ starts'[p].pc # "idle"
                 /\ IsBlank(candidateName))
                => /\ starts'[p].pc = "rejected"
                   /\ UNCHANGED <<now, focusVars, pendingVars, objectData,
                                  sessionVars, candidateName, events,
                                  intervalVars, lastEventTimeRef, cameraVars,
                                  stops, persistVars, logged, raised>>
          /\ starts[p].pc = "rejected" => starts'[p] = starts[p]]_vars

\* C6 witness: a start request made with a whitespace-only name stands
\* rejected.
C6_Witness ==
    /\ \E p \in StartIds :
          starts[p].pc = "rejected" /\ starts[p].candidateName = <<" ">>
    /\ ~isSessionActive /\ ~cameraOn /\ ~recording /\ created = {}

\* C7: a start request that fails at startCamera, startRecording or
\* createSession leaves the controller as it was, schedules no interval, and
\* holds no camera or recorder it acquired (stated for a failing request that
\* is the only one in flight while no session is active).
C7_FailedStartHoldsNothing ==
    [][\A p \in StartIds :
          (starts[p].pc \in {"camera", "recording", "create"}
             /\ starts'[p].pc = "failed")
              => /\ isSessionActive' = isSessionActive
                 /\ liveIntervals' = liveIntervals
                 /\ created' = created
                 /\ (~isSessionActive /\ InFlightStarts = {p})
                       => /\ starts[p].pc \in {"recording", "create"} => ~cameraOn'
                          /\ starts[p].pc = "create" => ~recording']_vars

\* sessions createSession has opened and no endSession call has closed
openSessions ==
    {c.id : c \in created} \ {endCalls[k] : k \in 1..Len(endCalls)}

\* C8: at most one session record is open, and at most one sampling interval
\* and one duration interval are scheduled, at any moment.
C8_OneSessionAtATime ==
    /\ Cardinality(openSessions) <= 1
    /\ Cardinality({i \in liveIntervals : isSampling(i)}) <= 1
    /\ Cardinality({i \in liveIntervals : ~isSampling(i)}) <= 1

\* C9: once a stop request has been issued for a session, no sampling tick
\* and no duration tick of an interval that session's start set fires.
C9_NoTickAfterStop ==
    [][\A i \in IntervalIds :
          (SamplingTick(i) \/ DurationTick(i)) => ownerOf(i) \notin StopRequested]_vars

\* C9 witness: a stop request has been issued for a session whose intervals
\* had fired, with a sampling request still awaiting its result.
C9_Witness ==
    /\ \E q \in StopIds : stops[q].pc = "stopRecording"
    /\ sessionTimer > 0
    /\ pendingFace > 0

\* C10: while no session is active and no stop request issued earlier is
\* still running, no stop request is taken: no endSession invocation starts,
\* persistence endSession is not called and no report is delivered.
C10_NoStopWhileIdle ==
    [][(~isSessionActive /\ InFlightStops = {})
          => /\ stops' = stops
             /\ endCalls' = endCalls
             /\ reports' = reports
             /\ isSessionActive' => OpenStep]_vars

\* C10 witness: the controller is idle after a session has ended, with a stop
\* request still available to the user.
C10_Witness ==
    /\ ~isSessionActive
    /\ InFlightStops = {}
    /\ reports # <<>>
    /\ \E q \in StopIds : stops[q].pc = "idle"

\* the finalized sessions emitted so far: those handed to persistence
\* endSession and those handed to onSessionComplete
Finalized ==
    {stops[q].data : q \in {r \in StopIds : stops[r].pc \in {"endSession", "done"}}}
    \cup {reports[k] : k \in 1..Len(reports)}

\* the positions of the events of one type in a log
Positions(evs, T) == {i \in 1..Len(evs) : evs[i].type = T}

\* C11: in every finalized session the four focus counts and totalDetections
\* are the numbers of events of their type in that session's events, and items
\* lists, without repetition, exactly the class names of its SUSPICIOUS_OBJECT
\* events.
C11_SummariesMatchEvents ==
    \A r \in Finalized :
        LET objs == Positions(r.events, "SUSPICIOUS_OBJECT")
            items == r.objectSummary.items
        IN  /\ r.focusSummary.focusLostCount
                  = Cardinality(Positions(r.events, "FOCUS_LOST"))
            /\ r.focusSummary.noFaceCount
                  = Cardinality(Positions(r.events, "NO_FACE"))
            /\ r.focusSummary.multipleFacesCount
                  = Cardinality(Positions(r.events, "MULTIPLE_FACES"))
            /\ r.focusSummary.eyeClosureCount
                  = Cardinality(Positions(r.events, "EYE_CLOSURE"))
            /\ r.objectSummary.totalDetections = Cardinality(objs)
            /\ {items[k] : k \in 1..Len(items)} = {r.events[i].class : i \in objs}
            /\ \A k, l \in 1..Len(items) : items[k] = items[l] => k = l

\* C11 witness: a report was delivered for a session whose log holds two
\* SUSPICIOUS_OBJECT events of one class and a MULTIPLE_FACES event.
C11_Witness ==
    \E k \in 1..Len(reports) :
        /\ reports[k].objectSummary.totalDetections = 2
        /\ reports[k].objectSummary.items = <<"book">>
        /\ reports[k].focusSummary.multipleFacesCount = 1

\* the reports delivered for a session
ReportsOf(sid) == {k \in 1..Len(reports) : reports[k].sessionId = sid}

\* C12: once a stop request issued for an active session has run to its end,
\* whatever the outcome of stopRecording and of persistence endSession and
\* whatever other stop requests were issued, the controller is no longer
\* active in that session and exactly one report has been delivered for it.
C12_StopEndsSessionAndReportsOnce ==
    \A q \in StopIds :
        stops[q].pc \in {"done", "failed"}
            => /\ ~(isSessionActive /\ sessionId = stops[q].sessionId)
               /\ Cardinality(ReportsOf(stops[q].sessionId)) = 1

\* the start of the no-face span a tick without a face belongs to: the last
\* tick of the session that saw a face, or the session's start when it has
\* seen none
SpanStart == Max(lastFaceTime, sessionStartTime)

\* C13: a tick of an active session that sees no face stores as
\* noFaceDuration the time since the no-face span began (at the last tick
\* that saw a face, or at session start when the session has seen none), not
\* less than the tick before it in the span stored; a tick that sees a face
\* stores 0.
C13_NoFaceDurationIsSpanLength ==
    [][(FaceStep /\ isSessionActive) =>
          IF focusData'.faceDetected
          THEN focusData'.noFaceDuration = 0
          ELSE /\ focusData'.noFaceDuration = now - SpanStart
               /\ ~focusData.faceDetected
                     => focusData'.noFaceDuration >= focusData.noFaceDuration]_vars

\* a face result without a face was handled in this step
NoFaceStep == FaceStep /\ ~focusData'.faceDetected

\* C14 as claimed: on every tick that sees no face, focusLostDuration is now
\* minus the last time a face was seen, and so equals noFaceDuration, whatever
\* the earlier ticks were.
C14_FocusLostSinceFaceSeen ==
    [][NoFaceStep =>
          /\ focusData'.focusLostDuration = now - lastFaceTime
          /\ focusData'.focusLostDuration = focusData'.noFaceDuration]_vars

\* C14 as amended: on every tick that sees no face, focusLostDuration is now
\* minus the last time the subject was seen looking at the screen; it is at
\* least noFaceDuration, and greater when a face was seen after that time.
C14_FocusLostSinceLastFocused ==
    [][NoFaceStep =>
          /\ focusData'.focusLostDuration = now - lastFocusTime
          /\ focusData'.focusLostDuration >= focusData'.noFaceDuration
          /\ lastFocusTime < lastFaceTime
                => focusData'.focusLostDuration > focusData'.noFaceDuration]_vars

\* C14 witness: the subject was seen looking away and then disappeared: the
\* tick without a face stored a focusLostDuration above its noFaceDuration.
C14_Witness ==
    /\ isSessionActive
    /\ ~focusData.faceDetected
    /\ focusData.noFaceDuration > 0
    /\ focusData.focusLostDuration > focusData.noFaceDuration
    /\ lastFocusTime < lastFaceTime

\* C20: in every state focusLostDuration is at least noFaceDuration and the
\* last-focused reference time is not later than the last-face-seen one; so a
\* focus record that raises a NO_FACE candidate (noFaceDuration > 10000) also
\* raises a FOCUS_LOST candidate (focusLostDuration > 5000).
C20_FocusLostAtLeastNoFace ==
    /\ focusData.focusLostDuration >= focusData.noFaceDuration
    /\ lastFocusTime <= lastFaceTime
    /\ focusData.noFaceDuration > 10000 => focusData.focusLostDuration > 5000

\* C20 witness: a tick of an active session raised a NO_FACE candidate, and
\* the log holds a NO_FACE and a FOCUS_LOST event stamped by that tick.
C20_Witness ==
    /\ isSessionActive
    /\ focusData.noFaceDuration > 10000
    /\ \E i, j \in 1..Len(events) :
          /\ events[i].type = "FOCUS_LOST" /\ events[i].timestamp = now
          /\ events[j].type = "NO_FACE" /\ events[j].timestamp = now

\* the NO_FACE events of a log stamped after time t
NoFaceSince(evs, t) ==
    {i \in 1..Len(evs) : evs[i].type = "NO_FACE" /\ evs[i].timestamp > t}

\* C15: in an active session in which a face was last seen at t0, the tick
\* without a face handled at t0 + 11000 stores noFaceDuration 11000 and
\* focusScore 0, and leaves in the log exactly one NO_FACE event stamped after
\* t0, the one it appends itself: no earlier tick of the span had one accepted.
C15_ScenarioA ==
    [][(NoFaceStep /\ isSessionActive /\ lastFaceTime >= sessionStartTime
           /\ now = lastFaceTime + 11000)
          => /\ focusData'.noFaceDuration = 11000
             /\ focusData'.focusScore = 0
             /\ Cardinality(NoFaceSince(events', lastFaceTime)) = 1
             /\ \A i \in NoFaceSince(events', lastFaceTime) :
                   events'[i].timestamp = now]_vars

\* C15 witness: a face was seen in the session at t0, after the tracker was
\* created, the ticks at t0 + 6000 and t0 + 9000 saw none (each had a
\* FOCUS_LOST event accepted) and the tick at t0 + 11000 saw none: the log
\* holds one NO_FACE event.
C15_Witness ==
    /\ isSessionActive
    /\ pendingFace = 0
    /\ \E i, j \in 1..Len(events) :
          /\ events[i].type = "FOCUS_LOST"
          /\ events[i].timestamp = lastFaceTime + 6000
          /\ events[j].type = "FOCUS_LOST"
          /\ events[j].timestamp = lastFaceTime + 9000
    /\ lastFaceTime > Epoch
    /\ lastFaceTime >= sessionStartTime
    /\ now = lastFaceTime + 11000
    /\ ~focusData.faceDetected
    /\ focusData.noFaceDuration = 11000
    /\ focusData.focusScore = 0
    /\ countType(events, "NO_FACE") = 1

\* C16: a sampling tick of a session is not started while a perception
\* request of an earlier tick is still awaiting its result.
C16_SamplingTicksDoNotOverlap ==
    [][\A i \in IntervalIds :
          SamplingTick(i) => pendingFace = 0 /\ pendingObject = 0]_vars

\* C17: a tick whose result holds no face stores faceDetected,
\* multipleFaces, lookingAtScreen and eyeClosure all false, whatever the
\* signal stored by the tick before it.
C17_NoFaceClearsSignal ==
    [][FaceResults(NoFace) =>
          /\ ~focusData'.faceDetected
          /\ ~focusData'.multipleFaces
          /\ ~focusData'.lookingAtScreen
          /\ ~focusData'.eyeClosure]_vars

\* C17 witness: a result with two faces was handled (its MULTIPLE_FACES event
\* is stamped with the last time a face was seen) and a later tick saw none.
C17_Witness ==
    /\ ~focusData.faceDetected
    /\ ~focusData.multipleFaces
    /\ focusData.noFaceDuration > 0
    /\ focusData.noFaceDuration = now - lastFaceTime
    /\ \E i \in 1..Len(events) :
          /\ events[i].type = "MULTIPLE_FACES"
          /\ events[i].timestamp = lastFaceTime

\* C18: every event accepted into a session's log and forwarded to
\* persistence logEvent is among the events of the report delivered for that
\* session.
C18_ReportHoldsEveryAcceptedEvent ==
    \A k \in 1..Len(reports) :
        \A l \in logged :
            l[1] = reports[k].sessionId
                => \E i \in 1..Len(reports[k].events) : reports[k].events[i] = l[2]

\* C19: a step that leaves the controller not active appends no event, makes
\* no logEvent call and leaves the debounce map as it was.
C19_NoEventWhileIdle ==
    [][~isSessionActive'
          => /\ events' = events
             /\ lastEventTimeRef' = lastEventTimeRef
             /\ logged' = logged]_vars

\* C19 witness: after a session has ended, the result of its last tick, with
\* two faces, was handled while idle; its MULTIPLE_FACES candidate would have
\* passed the debounce test.
C19_Witness ==
    /\ ~isSessionActive
    /\ reports # <<>>
    /\ focusData.multipleFaces
    /\ lastFaceTime = now
    /\ now - lastEventTimeRef["MULTIPLE_FACES"] >= 3000

====
